---- MODULE Spec2Model ----
(***************************************************************************)
(* Model of the resilience core of micv: the circuit breaker               *)
(* (CircuitBreaker.Call / onFailure / onSuccess), the retry executor       *)
(* (WithRetry) and the application service that composes them around the   *)
(* token fetch and the application submission.                             *)
(*                                                                         *)
(* Time is an integer clock `now`; one tick is one unit of time.Duration.  *)
(* Errors are tuples <<code, message, cause>>; the nil error is <<>>; an   *)
(* error that is not an *AppError has the empty code; a message is the     *)
(* tuple of its pieces; strings of the payload and tokens are sequences of *)
(* characters.                                                             *)
(***************************************************************************)
EXTENDS Integers, Sequences, FiniteSets, TLC

\* ---------------------------------------------------------------- bounds
MaxAttemptsBound == 3
MaxDelayBound == 2
MaxFailuresBound == 2
MaxResetTimeout == 1
MaxTime == 4
MaxCalls == 5
MaxRuns == 4
MaxConcCalls == 2
AppMaxTime == 40

\* ---------------------------------------------------------------- errors
NoErr == <<>>

NewAppError(code, message, cause) == <<code, message, cause>>

PlainError(message, cause) == <<"", message, cause>>

ErrCodeNetwork == "NETWORK_ERROR"
ErrCodeValidation == "VALIDATION_ERROR"
ErrCodeConfig == "CONFIG_ERROR"
ErrCodeAuth == "AUTH_ERROR"
ErrCodeTimeout == "TIMEOUT_ERROR"
ErrCodeUnexpected == "UNEXPECTED_ERROR"

Code(err) == err[1]

Cause(err) == err[3]

IsAppError(err) == err # NoErr /\ Code(err) # ""

\* context.Context: "active", or done with the error ctx.Err() returns
CtxKinds == {"Canceled", "DeadlineExceeded"}

CtxErr(c) == IF c = "Canceled" THEN PlainError(<<"context canceled">>, NoErr)
             ELSE PlainError(<<"context deadline exceeded">>, NoErr)

\* ------------------------------------------------------- circuit breaker
CircuitClosed == "CLOSED"
CircuitOpen == "OPEN"
CircuitHalfOpen == "HALF_OPEN"

NewCircuitBreaker(maxFailures, resetTimeout) ==
    [maxFailures |-> maxFailures, resetTimeout |-> resetTimeout,
     failures |-> 0, lastFailTime |-> 0, state |-> CircuitClosed]

Since(t, clock) == clock - t

CircuitOpenError == NewAppError(ErrCodeTimeout, <<"Circuit breaker is open">>, NoErr)

\* mutant: a rejected Call restarts the cooldown
CallAdmit_RejectRestartsCooldown(b, clock) ==
    IF b.state = CircuitOpen
    THEN IF Since(b.lastFailTime, clock) > b.resetTimeout
         THEN [cb |-> [b EXCEPT !.state = CircuitHalfOpen], admitted |-> TRUE]
         ELSE [cb |-> [b EXCEPT !.lastFailTime = clock], admitted |-> FALSE]
    ELSE [cb |-> b, admitted |-> TRUE]

\* mutant: the cooldown closes the circuit directly
CallAdmit_ClosesOnTimeout(b, clock) ==
    IF b.state = CircuitOpen
    THEN IF Since(b.lastFailTime, clock) > b.resetTimeout
         THEN [cb |-> [b EXCEPT !.state = CircuitClosed], admitted |-> TRUE]
         ELSE [cb |-> b, admitted |-> FALSE]
    ELSE [cb |-> b, admitted |-> TRUE]

\* The entry check of Call: the breaker after the check, and whether fn runs
CallAdmit(b, clock) ==
    IF b.state = CircuitOpen
    THEN IF Since(b.lastFailTime, clock) > b.resetTimeout
         THEN [cb |-> [b EXCEPT !.state = CircuitHalfOpen], admitted |-> TRUE]
         ELSE [cb |-> b, admitted |-> FALSE]
    ELSE [cb |-> b, admitted |-> TRUE]

\* mutant: the circuit opens only when the count equals the threshold
onFailure_ExactThreshold(b, clock) ==
    LET c == [b EXCEPT !.failures = b.failures + 1, !.lastFailTime = clock]
    IN IF c.failures = c.maxFailures THEN [c EXCEPT !.state = CircuitOpen] ELSE c

\* mutant: a failure does not record its time
onFailure_KeepsLastFailTime(b, clock) ==
    LET c == [b EXCEPT !.failures = b.failures + 1]
    IN IF c.failures >= c.maxFailures THEN [c EXCEPT !.state = CircuitOpen] ELSE c

\* mutant: the circuit opens only above the threshold
onFailure_StrictThreshold(b, clock) ==
    LET c == [b EXCEPT !.failures = b.failures + 1, !.lastFailTime = clock]
    IN IF c.failures > c.maxFailures THEN [c EXCEPT !.state = CircuitOpen] ELSE c

onFailure(b, clock) ==
    LET c == [b EXCEPT !.failures = b.failures + 1, !.lastFailTime = clock]
    IN IF c.failures >= c.maxFailures THEN [c EXCEPT !.state = CircuitOpen] ELSE c

\* mutant: a success takes one failure off the count
onSuccess_DecrementsFailures(b) ==
    [b EXCEPT !.failures = b.failures - 1, !.state = CircuitClosed]

\* mutant: a success closes the circuit but keeps the count
onSuccess_KeepsFailures(b) ==
    [b EXCEPT !.state = CircuitClosed]

onSuccess(b) ==
    [b EXCEPT !.failures = 0, !.state = CircuitClosed]

\* mutant: a failure is recorded twice
CallReturn_CountsTwice(b, clock, err) ==
    IF err # NoErr THEN onFailure(onFailure(b, clock), clock) ELSE onSuccess(b)

\* The part of Call after fn returned err
CallReturn(b, clock, err) ==
    IF err # NoErr THEN onFailure(b, clock) ELSE onSuccess(b)

\* ---------------------------------------------------------------- retry
\* mutant: one more attempt by default
DefaultRetryConfig_FourAttempts ==
    [MaxAttempts |-> 4, InitialDelay |-> 1, MaxDelay |-> 30, Multiplier |-> 20]

DefaultRetryConfig ==
    [MaxAttempts |-> 3, InitialDelay |-> 1, MaxDelay |-> 30, Multiplier |-> 20]

\* mutant: the last attempt's error is returned as it is
ExhaustedError_Unwrapped(lastErr) == lastErr

ExhaustedError(lastErr) ==
    NewAppError(ErrCodeUnexpected, <<"Operation failed after all retries">>, lastErr)

\* mutant: the delay grows without a cap
Backoff_Uncapped(delay, cfg) ==
    (delay * cfg.Multiplier) \div 10

\* time.Duration(float64(delay) * config.Multiplier); Multiplier in tenths
Backoff(delay, cfg) ==
    LET d == (delay * cfg.Multiplier) \div 10
    IN IF d > cfg.MaxDelay THEN cfg.MaxDelay ELSE d

RetryIdle ==
    [pc |-> "idle", attempt |-> 0, delay |-> 0, lastErr |-> NoErr,
     timer |-> 0, err |-> NoErr]

\* mutant: the loop stops one attempt early
RetryLoop_Exclusive(r, cfg) ==
    IF r.attempt < cfg.MaxAttempts
    THEN [r EXCEPT !.pc = "call"]
    ELSE [r EXCEPT !.pc = "ret", !.err = ExhaustedError(r.lastErr)]

\* loop head: attempt <= config.MaxAttempts, else the return after the loop
RetryLoop(r, cfg) ==
    IF r.attempt <= cfg.MaxAttempts
    THEN [r EXCEPT !.pc = "call"]
    ELSE [r EXCEPT !.pc = "ret", !.err = ExhaustedError(r.lastErr)]

WithRetryEnter(cfg) ==
    RetryLoop([RetryIdle EXCEPT !.attempt = 1, !.delay = cfg.InitialDelay], cfg)

\* mutant: a nil error is handled like a failure
WithRetryAfterFn_NoSuccessReturn(r, cfg, err, clock) ==
    IF r.attempt = cfg.MaxAttempts
    THEN [r EXCEPT !.pc = "ret", !.lastErr = err, !.err = ExhaustedError(err)]
    ELSE [r EXCEPT !.pc = "wait", !.lastErr = err, !.timer = clock + r.delay]

\* fn returned err on this attempt
WithRetryAfterFn(r, cfg, err, clock) ==
    IF err = NoErr
    THEN [r EXCEPT !.pc = "ret", !.err = NoErr]
    ELSE IF r.attempt = cfg.MaxAttempts
         THEN [r EXCEPT !.pc = "ret", !.lastErr = err, !.err = ExhaustedError(err)]
         ELSE [r EXCEPT !.pc = "wait", !.lastErr = err, !.timer = clock + r.delay]

TimerReady(r, clock) == clock >= r.timer

\* case <-time.After(delay): back off and go to the next attempt
WithRetryAfterWait(r, cfg) ==
    RetryLoop([r EXCEPT !.delay = Backoff(r.delay, cfg), !.attempt = r.attempt + 1], cfg)

\* mutant: a done context ends the wait but not the loop
WithRetryCancelled_KeepsGoing(r, c) ==
    [r EXCEPT !.pc = "call", !.attempt = r.attempt + 1]

\* case <-ctx.Done(): return ctx.Err()
WithRetryCancelled(r, c) ==
    [r EXCEPT !.pc = "ret", !.err = CtxErr(c)]

\* ------------------------------------------------- application service
\* Strings are sequences of characters.
DefaultConfig ==
    [SecretURL |-> "https://au.mitimes.com/careers/apply/secret",
     ApplicationURL |-> "https://au.mitimes.com/careers/apply",
     Timeout |-> 30]

\* a URL http.NewRequest cannot parse
MalformedURL == "http://[::1"

IsSpace(c) == c = " "

RECURSIVE TrimLeft(_)
TrimLeft(str) ==
    IF str # <<>> /\ IsSpace(Head(str)) THEN TrimLeft(Tail(str)) ELSE str

RECURSIVE TrimRight(_)
TrimRight(str) ==
    IF str # <<>> /\ IsSpace(str[Len(str)])
    THEN TrimRight(SubSeq(str, 1, Len(str) - 1)) ELSE str

TrimSpace(str) == TrimRight(TrimLeft(str))

Contains(str, c) == \E i \in 1..Len(str) : str[i] = c

RequiredField(fieldName, value) ==
    IF TrimSpace(value) = <<>> THEN PlainError(<<fieldName, "is required">>, NoErr) ELSE NoErr

EmailFormat(value) ==
    IF ~Contains(value, "@") \/ ~Contains(value, ".")
    THEN PlainError(<<"invalid email format">>, NoErr) ELSE NoErr

\* mutant: the minimum itself is too short
MinLength_Inclusive(min, value) ==
    IF Len(TrimSpace(value)) <= min
    THEN PlainError(<<"must be at least", ToString(min), "characters">>, NoErr) ELSE NoErr

MinLength(min, value) ==
    IF Len(TrimSpace(value)) < min
    THEN PlainError(<<"must be at least", ToString(min), "characters">>, NoErr) ELSE NoErr

\* Validator.Validate: the error of the first rule that fails
Validate(errs) ==
    IF \E i \in 1..Len(errs) : errs[i] # NoErr
    THEN errs[CHOOSE i \in 1..Len(errs) :
                /\ errs[i] # NoErr
                /\ \A j \in 1..(i - 1) : errs[j] = NoErr]
    ELSE NoErr

validateApplicationDataFunctional(data) ==
    Validate(<<Validate(<<RequiredField("name", data.Name), MinLength(2, data.Name)>>),
               Validate(<<RequiredField("email", data.Email), EmailFormat(data.Email)>>),
               Validate(<<RequiredField("job_title", data.JobTitle),
                          MinLength(3, data.JobTitle)>>)>>)

\* mutant: a validation failure is reported as a configuration error
WrapValidationError_ConfigCode(err) ==
    NewAppError(ErrCodeConfig, <<"Validation failed">>, err)

WrapValidationError(err) == NewAppError(ErrCodeValidation, <<"Validation failed">>, err)

WrapAuthError(err) == NewAppError(ErrCodeAuth, <<"Authentication failed">>, err)

WrapNetworkError(err) == NewAppError(ErrCodeNetwork, <<"Network request failed">>, err)

TransportError == PlainError(<<"network error">>, NoErr)

\* what client.Get / client.Do return: a transport error, or a response
\* with a status and a body (unreadable, not JSON, or JSON with a result)
NoResponse == [ok |-> FALSE, status |-> 0, body |-> [kind |-> "none", result |-> <<>>]]

Response(status, kind, res) ==
    [ok |-> TRUE, status |-> status, body |-> [kind |-> kind, result |-> res]]

\* mutant: status 300 passes the status check
validateSecretResponse_Accepts300(resp) ==
    IF resp.status < 200 \/ resp.status > 300
    THEN PlainError(<<"secret endpoint returned non-success status", ToString(resp.status)>>, NoErr)
    ELSE NoErr

validateSecretResponse(resp) ==
    IF resp.status < 200 \/ resp.status >= 300
    THEN PlainError(<<"secret endpoint returned non-success status", ToString(resp.status)>>, NoErr)
    ELSE NoErr

parseSecretResponse(resp) ==
    IF resp.body.kind = "unreadable"
    THEN [token |-> <<>>, err |-> PlainError(<<"failed to read response body">>, NoErr)]
    ELSE IF resp.body.kind # "json"
    THEN [token |-> <<>>, err |-> PlainError(<<"failed to parse JSON response">>, NoErr)]
    ELSE IF resp.body.result = <<>>
    THEN [token |-> <<>>, err |-> PlainError(<<"empty result in secret response">>, NoErr)]
    ELSE [token |-> resp.body.result, err |-> NoErr]

getAuthTokenWithClient(resp) ==
    IF ~resp.ok
    THEN [token |-> <<>>, err |-> PlainError(<<"failed to make request">>, TransportError)]
    ELSE IF validateSecretResponse(resp) # NoErr
    THEN [token |-> <<>>, err |-> validateSecretResponse(resp)]
    ELSE parseSecretResponse(resp)

\* mutant: the token is sent as a bearer token
createApplicationRequest_BearerPrefix(applicationURL, tok) ==
    IF applicationURL = MalformedURL
    THEN [req |-> <<>>, err |-> PlainError(<<"failed to create request">>, NoErr)]
    ELSE [req |-> <<[Method |-> "POST", URL |-> applicationURL,
                     ContentType |-> <<"application/json">>,
                     Authorization |-> <<"B", "e", "a", "r", "e", "r", " ">> \o tok]>>,
          err |-> NoErr]

\* the request of createApplicationRequest, or the error of http.NewRequest
createApplicationRequest(applicationURL, tok) ==
    IF applicationURL = MalformedURL
    THEN [req |-> <<>>, err |-> PlainError(<<"failed to create request">>, NoErr)]
    ELSE [req |-> <<[Method |-> "POST", URL |-> applicationURL,
                     ContentType |-> <<"application/json">>,
                     Authorization |-> tok]>>,
          err |-> NoErr]

\* mutant: a status outside [200,300) is an error
processApplicationResponse_ChecksStatus(resp) ==
    IF resp.body.kind = "unreadable"
    THEN PlainError(<<"failed to read response body">>, NoErr)
    ELSE IF resp.status < 200 \/ resp.status >= 300
    THEN PlainError(<<"non-success status", ToString(resp.status)>>, NoErr)
    ELSE NoErr

\* the error of io.ReadAll, else nil whatever the status
processApplicationResponse(resp) ==
    IF resp.body.kind = "unreadable"
    THEN PlainError(<<"failed to read response body">>, NoErr)
    ELSE NoErr

executeApplicationRequest(resp) ==
    IF ~resp.ok THEN PlainError(<<"failed to make request">>, TransportError)
    ELSE processApplicationResponse(resp)

\* what the HTTP client saw during one SubmitApplication, and what the
\* retried operation returned on its latest invocation (opErr)
HttpNone ==
    [gets |-> 0, posts |-> 0, getsOK |-> TRUE, postsOK |-> TRUE,
     gets500 |-> TRUE, postsRead |-> TRUE, postNon2xx |-> FALSE,
     opErr |-> NoErr,
     lastResult |-> <<>>, sent |-> {}, submitted |-> FALSE,
     cbAtSubmit |-> NewCircuitBreaker(0, 0)]

\* ------------------------------------------------------------ variables
VARIABLES
    now,        \* the clock
    ctx,        \* the context passed to Call / WithRetry / SubmitApplication
    cb,         \* the CircuitBreaker
    call,       \* position in CircuitBreaker.Call and its return value
    pre,        \* breaker and clock as they were when the current Call began
    invoked,    \* invocations of fn by the current Call
    consec,     \* Calls in a row whose fn ran and failed
    calls,      \* Calls made so far
    config,     \* the RetryConfig
    rt,         \* locals of the running WithRetry
    succeedAt,  \* the test operation fails before this invocation and succeeds from it
    opCalls,    \* invocations of the operation by the running WithRetry
    waits,      \* backoff waits begun by the running WithRetry
    apc,        \* position in SubmitApplication
    appCfg,     \* deps.Config()
    appData,    \* the payload of the current SubmitApplication
    token,      \* the token fetchTokenWithResilience returned
    result,     \* what the last SubmitApplication returned
    runs,       \* SubmitApplication calls made on these dependencies
    http,       \* what the HTTP client saw during the current SubmitApplication
    probe,      \* one call of a function: its arguments and what it returned
    callers     \* the goroutines inside Call on the shared breaker

vars == <<now, ctx, cb, call, pre, invoked, consec, calls,
          config, rt, succeedAt, opCalls, waits,
          apc, appCfg, appData, token, result, runs, http, probe, callers>>

appVars == <<apc, appCfg, appData, token, result, runs, http>>

cbVars == <<cb, call, pre, invoked, consec, calls>>

retryVars == <<config, rt, succeedAt, opCalls, waits>>

CallIdle == [pc |-> "idle", err |-> NoErr]

\* no function call is being examined
ProbeNone == [fn |-> "none"]

\* no goroutine shares the breaker
NoCallers == <<>>

PreNone == [cb |-> NewCircuitBreaker(0, 0), now |-> 0, consec |-> 0]

\* the application service before its first SubmitApplication
AppIdle ==
    /\ apc = "idle"
    /\ appCfg = DefaultConfig
    /\ appData = [Name |-> <<>>, Email |-> <<>>, JobTitle |-> <<>>]
    /\ token = <<>>
    /\ result = NoErr
    /\ runs = 0
    /\ http = HttpNone

\* ------------------------------------------------------------ environment
Tick ==
    /\ now < MaxTime
    /\ now' = now + 1
    /\ UNCHANGED <<ctx, cbVars, retryVars, probe, callers, appVars>>

CtxCancel ==
    /\ ctx = "active"
    /\ \E k \in CtxKinds : ctx' = k
    /\ UNCHANGED <<now, cbVars, retryVars, probe, callers, appVars>>

\* ------------------------------------------- circuit breaker test harness
\* cb.Call(ctx, fn) begins: the entry check
CallEnter ==
    /\ call.pc \in {"idle", "ret"}
    /\ calls < MaxCalls
    /\ LET a == CallAdmit(cb, now)
       IN /\ cb' = a.cb
          /\ call' = IF a.admitted THEN [pc |-> "fn", err |-> NoErr]
                     ELSE [pc |-> "ret", err |-> CircuitOpenError]
    /\ pre' = [cb |-> cb, now |-> now, consec |-> consec]
    /\ invoked' = 0
    /\ calls' = calls + 1
    /\ UNCHANGED <<now, ctx, consec, retryVars, probe, callers, appVars>>

TestError == PlainError(<<"test error">>, NoErr)

\* fn runs and returns; Call records the outcome and returns it
CallFn ==
    /\ call.pc = "fn"
    /\ \E e \in {NoErr, TestError} :
        /\ cb' = CallReturn(cb, now, e)
        /\ call' = [pc |-> "ret", err |-> e]
        /\ consec' = IF e = NoErr THEN 0 ELSE consec + 1
    /\ invoked' = invoked + 1
    /\ UNCHANGED <<now, ctx, pre, calls, retryVars, probe, callers, appVars>>

InitCB ==
    /\ now = 0
    /\ ctx = "active"
    /\ \E m \in 0..MaxFailuresBound, t \in 0..MaxResetTimeout :
        cb = NewCircuitBreaker(m, t)
    /\ call = CallIdle
    /\ pre = PreNone
    /\ invoked = 0
    /\ consec = 0
    /\ calls = 0
    /\ config = DefaultRetryConfig
    /\ rt = RetryIdle
    /\ succeedAt = 0
    /\ opCalls = 0
    /\ waits = 0
    /\ AppIdle
    /\ probe = ProbeNone
    /\ callers = NoCallers

NextCB == Tick \/ CallEnter \/ CallFn

SpecCB == InitCB /\ [][NextCB]_vars

\* ------------------------------------------------------ retry test harness
\* the operation of TestRetryMechanism: fails until invocation succeedAt
\* (succeedAt = 0: it fails on every invocation)
OpOutcome(i) ==
    IF succeedAt = 0 \/ i < succeedAt THEN PlainError(<<"temporary error">>, NoErr) ELSE NoErr

RetryCall ==
    /\ rt.pc = "idle"
    /\ rt' = WithRetryEnter(config)
    /\ UNCHANGED <<now, ctx, cbVars, config, probe, callers, succeedAt, opCalls, waits, appVars>>

\* mutant: the context is checked before each invocation
RetryOp_ChecksContext ==
    /\ rt.pc = "call"
    /\ IF ctx # "active"
       THEN /\ rt' = WithRetryCancelled(rt, ctx)
            /\ UNCHANGED <<opCalls, waits>>
       ELSE /\ opCalls' = opCalls + 1
            /\ rt' = WithRetryAfterFn(rt, config, OpOutcome(opCalls + 1), now)
            /\ waits' = IF rt'.pc = "wait" THEN waits + 1 ELSE waits
    /\ UNCHANGED <<now, ctx, cbVars, config, probe, callers, succeedAt, appVars>>

RetryOp ==
    /\ rt.pc = "call"
    /\ opCalls' = opCalls + 1
    /\ rt' = WithRetryAfterFn(rt, config, OpOutcome(opCalls + 1), now)
    /\ waits' = IF rt'.pc = "wait" THEN waits + 1 ELSE waits
    /\ UNCHANGED <<now, ctx, cbVars, config, probe, callers, succeedAt, appVars>>

RetryWaitElapsed ==
    /\ rt.pc = "wait"
    /\ TimerReady(rt, now)
    /\ rt' = WithRetryAfterWait(rt, config)
    /\ UNCHANGED <<now, ctx, cbVars, config, probe, callers, succeedAt, opCalls, waits, appVars>>

RetryWaitCancelled ==
    /\ rt.pc = "wait"
    /\ ctx # "active"
    /\ rt' = WithRetryCancelled(rt, ctx)
    /\ UNCHANGED <<now, ctx, cbVars, config, probe, callers, succeedAt, opCalls, waits, appVars>>

RetryConfigs ==
    [MaxAttempts : 0..MaxAttemptsBound, InitialDelay : 0..MaxDelayBound,
     MaxDelay : 1..MaxDelayBound, Multiplier : {10, 20}]

InitRetry ==
    /\ now = 0
    /\ ctx \in {"active"} \cup CtxKinds
    /\ cb = NewCircuitBreaker(0, 0)
    /\ call = CallIdle
    /\ pre = PreNone
    /\ invoked = 0
    /\ consec = 0
    /\ calls = 0
    /\ config \in RetryConfigs
    /\ rt = RetryIdle
    /\ succeedAt \in 0..(MaxAttemptsBound + 1)
    /\ opCalls = 0
    /\ waits = 0
    /\ AppIdle
    /\ probe = ProbeNone
    /\ callers = NoCallers

NextRetry == Tick \/ CtxCancel \/ RetryCall \/ RetryOp \/ RetryWaitElapsed \/ RetryWaitCancelled

SpecRetry == InitRetry /\ [][NextRetry]_vars

\* ------------------------------------------------- the application service
\* The service treats every non-empty token alike and every status outside
\* [200,300) alike; the boundaries of both are examined on
\* getAuthTokenWithClient alone, below.
Tokens == {<<>>, <<"B", " ", "t">>}

GetStatuses == {200, 299, 500}

PostStatuses == {200, 400, 500}

GetResponses ==
    {NoResponse}
    \cup {Response(st, k, <<>>) : st \in GetStatuses, k \in {"unreadable", "invalid"}}
    \cup {Response(st, "json", t) : st \in GetStatuses, t \in Tokens}

PostResponses ==
    {NoResponse}
    \cup {Response(st, k, <<>>) : st \in PostStatuses, k \in {"unreadable", "json"}}

ValidPayload ==
    [Name |-> <<"J", "o">>, Email |-> <<"j", "@", "x", ".", "c">>,
     JobTitle |-> <<"d", "e", "v">>]

Payloads ==
    {ValidPayload,
     [ValidPayload EXCEPT !.Name = <<>>],
     [ValidPayload EXCEPT !.Email = <<"j", "@", "x">>],
     [ValidPayload EXCEPT !.JobTitle = <<" ", " ", " ">>]}

\* the secret endpoint answered 2xx with a non-empty result
IsTokenResponse(resp) ==
    /\ resp.ok /\ resp.status >= 200 /\ resp.status < 300
    /\ resp.body.kind = "json" /\ resp.body.result # <<>>

\* the submission endpoint answered 200
IsOKResponse(resp) ==
    resp.ok /\ resp.status = 200 /\ resp.body.kind # "unreadable"

\* the endpoint answered with this status
IsStatusResponse(resp, status) == resp.ok /\ resp.status = status

\* the endpoint answered and the body could be read
IsReadResponse(resp) == resp.ok /\ resp.body.kind # "unreadable"

\* the endpoint answered with a readable body and a status outside [200,300)
IsNon2xxResponse(resp) ==
    IsReadResponse(resp) /\ (resp.status < 200 \/ resp.status >= 300)

\* The application reads the clock only in the backoff timer and in the
\* breaker's cooldown check: time passes while one of the two is pending.
\* Between two SubmitApplication calls, all instants before the last one of
\* the cooldown are alike to the breaker: time passes up to that instant at
\* once, and from it by one unit.
AppTick ==
    /\ now < AppMaxTime
    /\ \/ /\ rt.pc = "wait" /\ ~TimerReady(rt, now)
          /\ now' = now + 1
       \/ /\ apc \in {"idle", "done"}
          /\ cb.state = CircuitOpen
          /\ Since(cb.lastFailTime, now) <= cb.resetTimeout
          /\ now' = IF Since(cb.lastFailTime, now) < cb.resetTimeout
                    THEN cb.lastFailTime + cb.resetTimeout
                    ELSE now + 1
          /\ now' <= AppMaxTime
    /\ UNCHANGED <<ctx, cbVars, retryVars, probe, callers, appVars>>

\* mutant: a validation failure is recorded by the breaker as a failure
SubmitApplication_CountsValidation ==
    /\ apc \in {"idle", "done"}
    /\ runs < MaxRuns
    /\ runs' = runs + 1
    /\ http' = HttpNone
    /\ token' = <<>>
    /\ \E d \in Payloads, c \in {"active"} \cup CtxKinds :
        /\ appData' = d
        /\ ctx' = c
        /\ LET verr == validateApplicationDataFunctional(d)
               a == CallAdmit(cb, now)
           IN IF verr # NoErr
              THEN /\ result' = WrapValidationError(verr)
                   /\ apc' = "done"
                   /\ call' = CallIdle
                   /\ invoked' = 0
                   /\ cb' = onFailure(cb, now)
                   /\ UNCHANGED <<pre, calls, rt>>
              ELSE /\ cb' = a.cb
                   /\ pre' = [cb |-> cb, now |-> now, consec |-> consec]
                   /\ calls' = calls + 1
                   /\ IF a.admitted
                      THEN /\ call' = [pc |-> "fn", err |-> NoErr]
                           /\ invoked' = 1
                           /\ rt' = WithRetryEnter(config)
                           /\ apc' = "fetch"
                           /\ result' = NoErr
                      ELSE /\ call' = [pc |-> "ret", err |-> CircuitOpenError]
                           /\ invoked' = 0
                           /\ rt' = RetryIdle
                           /\ apc' = "done"
                           /\ result' = CircuitOpenError
    /\ UNCHANGED <<now, consec, config, probe, callers, succeedAt, opCalls, waits, appCfg>>

\* SubmitApplication begins: validation, then the entry of the breaker Call
\* of fetchTokenWithResilience and of the WithRetry of fetchTokenWithRetry
SubmitApplication ==
    /\ apc \in {"idle", "done"}
    /\ runs < MaxRuns
    /\ runs' = runs + 1
    /\ http' = HttpNone
    /\ token' = <<>>
    /\ \E d \in Payloads, c \in {"active"} \cup CtxKinds :
        /\ appData' = d
        /\ ctx' = c
        /\ LET verr == validateApplicationDataFunctional(d)
               a == CallAdmit(cb, now)
           IN IF verr # NoErr
              THEN /\ result' = WrapValidationError(verr)
                   /\ apc' = "done"
                   /\ call' = CallIdle
                   /\ invoked' = 0
                   /\ UNCHANGED <<cb, pre, calls, rt>>
              ELSE /\ cb' = a.cb
                   /\ pre' = [cb |-> cb, now |-> now, consec |-> consec]
                   /\ calls' = calls + 1
                   /\ IF a.admitted
                      THEN /\ call' = [pc |-> "fn", err |-> NoErr]
                           /\ invoked' = 1
                           /\ rt' = WithRetryEnter(config)
                           /\ apc' = "fetch"
                           /\ result' = NoErr
                      ELSE /\ call' = [pc |-> "ret", err |-> CircuitOpenError]
                           /\ invoked' = 0
                           /\ rt' = RetryIdle
                           /\ apc' = "done"
                           /\ result' = CircuitOpenError
    /\ UNCHANGED <<now, consec, config, probe, callers, succeedAt, opCalls, waits, appCfg>>

\* mutant: the breaker Call is made inside the retried operation
FetchAttempt_BreakerInside ==
    /\ apc = "fetch"
    /\ rt.pc = "call"
    /\ \E resp \in GetResponses :
        LET tr == getAuthTokenWithClient(resp)
            err == IF tr.err # NoErr THEN WrapAuthError(tr.err) ELSE NoErr
        IN /\ rt' = WithRetryAfterFn(rt, config, err, now)
           /\ cb' = CallReturn(cb, now, err)
           /\ token' = tr.token
           /\ http' = [http EXCEPT !.gets = @ + 1,
                                   !.getsOK = @ /\ IsTokenResponse(resp),
                                   !.gets500 = @ /\ IsStatusResponse(resp, 500),
                                   !.opErr = err,
                                   !.lastResult = resp.body.result]
    /\ UNCHANGED <<now, ctx, call, pre, invoked, consec, calls,
                   config, probe, callers, succeedAt, opCalls, waits,
                   apc, appCfg, appData, result, runs>>

\* one attempt of the operation of fetchTokenWithRetry
FetchAttempt ==
    /\ apc = "fetch"
    /\ rt.pc = "call"
    /\ \E resp \in GetResponses :
        LET tr == getAuthTokenWithClient(resp)
            err == IF tr.err # NoErr THEN WrapAuthError(tr.err) ELSE NoErr
        IN /\ rt' = WithRetryAfterFn(rt, config, err, now)
           /\ token' = tr.token
           /\ http' = [http EXCEPT !.gets = @ + 1,
                                   !.getsOK = @ /\ IsTokenResponse(resp),
                                   !.gets500 = @ /\ IsStatusResponse(resp, 500),
                                   !.opErr = err,
                                   !.lastResult = resp.body.result]
    /\ UNCHANGED <<now, ctx, cbVars, config, probe, callers, succeedAt, opCalls, waits,
                   apc, appCfg, appData, result, runs>>

\* mutant: the breaker Call returns its own error for a failed operation
FetchReturn_MasksError ==
    /\ apc = "fetch"
    /\ rt.pc = "ret"
    /\ cb' = CallReturn(cb, now, rt.err)
    /\ call' = [pc |-> "ret",
                err |-> IF rt.err # NoErr /\ cb'.state = CircuitOpen
                        THEN CircuitOpenError ELSE rt.err]
    /\ consec' = IF rt.err = NoErr THEN 0 ELSE consec + 1
    /\ IF rt.err # NoErr
       THEN /\ result' = call'.err
            /\ apc' = "done"
            /\ token' = <<>>
            /\ rt' = RetryIdle
            /\ UNCHANGED http
       ELSE /\ apc' = "submit"
            /\ rt' = WithRetryEnter(config)
            /\ http' = [http EXCEPT !.submitted = TRUE, !.cbAtSubmit = cb']
            /\ UNCHANGED <<token, result>>
    /\ UNCHANGED <<now, ctx, pre, invoked, calls, config, probe, callers, succeedAt, opCalls, waits,
                   appCfg, appData, runs>>

\* mutant: a fetch ended by the context is not recorded by the breaker
FetchReturn_IgnoresCancellation ==
    /\ apc = "fetch"
    /\ rt.pc = "ret"
    /\ cb' = IF rt.err \in {CtxErr(k) : k \in CtxKinds} THEN cb
             ELSE CallReturn(cb, now, rt.err)
    /\ call' = [pc |-> "ret", err |-> rt.err]
    /\ consec' = IF rt.err = NoErr THEN 0 ELSE consec + 1
    /\ IF rt.err # NoErr
       THEN /\ result' = rt.err
            /\ apc' = "done"
            /\ token' = <<>>
            /\ rt' = RetryIdle
            /\ UNCHANGED http
       ELSE /\ apc' = "submit"
            /\ rt' = WithRetryEnter(config)
            /\ http' = [http EXCEPT !.submitted = TRUE, !.cbAtSubmit = cb']
            /\ UNCHANGED <<token, result>>
    /\ UNCHANGED <<now, ctx, pre, invoked, calls, config, probe, callers, succeedAt, opCalls, waits,
                   appCfg, appData, runs>>

\* mutant: the submission begins whatever the token fetch returned
FetchReturn_SubmitsAnyway ==
    /\ apc = "fetch"
    /\ rt.pc = "ret"
    /\ cb' = CallReturn(cb, now, rt.err)
    /\ call' = [pc |-> "ret", err |-> rt.err]
    /\ consec' = IF rt.err = NoErr THEN 0 ELSE consec + 1
    /\ apc' = "submit"
    /\ rt' = WithRetryEnter(config)
    /\ http' = [http EXCEPT !.submitted = TRUE, !.cbAtSubmit = cb']
    /\ UNCHANGED <<token, result>>
    /\ UNCHANGED <<now, ctx, pre, invoked, calls, config, probe, callers, succeedAt, opCalls, waits,
                   appCfg, appData, runs>>

\* fetchTokenWithRetry returns into the breaker Call, which records the
\* outcome; SubmitApplication returns the error or begins submitWithResilience
FetchReturn ==
    /\ apc = "fetch"
    /\ rt.pc = "ret"
    /\ cb' = CallReturn(cb, now, rt.err)
    /\ call' = [pc |-> "ret", err |-> rt.err]
    /\ consec' = IF rt.err = NoErr THEN 0 ELSE consec + 1
    /\ IF rt.err # NoErr
       THEN /\ result' = rt.err
            /\ apc' = "done"
            /\ token' = <<>>
            /\ rt' = RetryIdle
            /\ UNCHANGED http
       ELSE /\ apc' = "submit"
            /\ rt' = WithRetryEnter(config)
            /\ http' = [http EXCEPT !.submitted = TRUE, !.cbAtSubmit = cb']
            /\ UNCHANGED <<token, result>>
    /\ UNCHANGED <<now, ctx, pre, invoked, calls, config, probe, callers, succeedAt, opCalls, waits,
                   appCfg, appData, runs>>

\* mutant: every submission attempt fetches the token again
SubmitAttempt_FetchesPerAttempt ==
    /\ apc = "submit"
    /\ rt.pc = "call"
    /\ \E g \in GetResponses :
        LET tr == getAuthTokenWithClient(g)
            tok == IF tr.err = NoErr THEN tr.token ELSE token
            cr == createApplicationRequest(appCfg.ApplicationURL, tok)
        IN /\ token' = tok
           /\ IF cr.err # NoErr
              THEN /\ rt' = WithRetryAfterFn(rt, config, WrapNetworkError(cr.err), now)
                   /\ http' = [http EXCEPT !.gets = @ + 1,
                                           !.opErr = WrapNetworkError(cr.err)]
              ELSE \E resp \in PostResponses :
                    LET e == executeApplicationRequest(resp)
                        err == IF e # NoErr THEN WrapNetworkError(e) ELSE NoErr
                    IN /\ rt' = WithRetryAfterFn(rt, config, err, now)
                       /\ http' = [http EXCEPT !.gets = @ + 1,
                                               !.posts = @ + 1,
                                               !.postsOK = @ /\ IsOKResponse(resp),
                                               !.postsRead = @ /\ IsReadResponse(resp),
                                               !.postNon2xx = @ \/ IsNon2xxResponse(resp),
                                               !.opErr = err,
                                               !.sent = @ \cup {cr.req[1]}]
    /\ UNCHANGED <<now, ctx, cbVars, config, probe, callers, succeedAt, opCalls, waits,
                   apc, appCfg, appData, result, runs>>

\* one attempt of the operation of submitWithResilience
SubmitAttempt ==
    /\ apc = "submit"
    /\ rt.pc = "call"
    /\ LET cr == createApplicationRequest(appCfg.ApplicationURL, token)
       IN IF cr.err # NoErr
          THEN /\ rt' = WithRetryAfterFn(rt, config, WrapNetworkError(cr.err), now)
               /\ http' = [http EXCEPT !.opErr = WrapNetworkError(cr.err)]
          ELSE \E resp \in PostResponses :
                LET e == executeApplicationRequest(resp)
                    err == IF e # NoErr THEN WrapNetworkError(e) ELSE NoErr
                IN /\ rt' = WithRetryAfterFn(rt, config, err, now)
                   /\ http' = [http EXCEPT !.posts = @ + 1,
                                           !.postsOK = @ /\ IsOKResponse(resp),
                                           !.postsRead = @ /\ IsReadResponse(resp),
                                           !.postNon2xx = @ \/ IsNon2xxResponse(resp),
                                           !.opErr = err,
                                           !.sent = @ \cup {cr.req[1]}]
    /\ UNCHANGED <<now, ctx, cbVars, config, probe, callers, succeedAt, opCalls, waits,
                   apc, appCfg, appData, token, result, runs>>

\* mutant: the submission is a breaker Call like the token fetch
SubmitReturn_ThroughBreaker ==
    /\ apc = "submit"
    /\ rt.pc = "ret"
    /\ cb' = CallReturn(cb, now, rt.err)
    /\ result' = rt.err
    /\ apc' = "done"
    /\ rt' = RetryIdle
    /\ UNCHANGED <<now, ctx, call, pre, invoked, consec, calls,
                   config, probe, callers, succeedAt, opCalls, waits,
                   appCfg, appData, token, runs, http>>

\* submitWithResilience returns what WithRetry returned
SubmitReturn ==
    /\ apc = "submit"
    /\ rt.pc = "ret"
    /\ result' = rt.err
    /\ apc' = "done"
    /\ rt' = RetryIdle
    /\ UNCHANGED <<now, ctx, cbVars, config, probe, callers, succeedAt, opCalls, waits,
                   appCfg, appData, token, runs, http>>

AppMaxFailures == 3

AppResetTimeout == 30

Init ==
    /\ now = 0
    /\ ctx = "active"
    /\ cb = NewCircuitBreaker(AppMaxFailures, AppResetTimeout)
    /\ call = CallIdle
    /\ pre = PreNone
    /\ invoked = 0
    /\ consec = 0
    /\ calls = 0
    /\ config = DefaultRetryConfig
    /\ rt = RetryIdle
    /\ succeedAt = 0
    /\ opCalls = 0
    /\ waits = 0
    /\ apc = "idle"
    /\ appCfg \in {DefaultConfig, [DefaultConfig EXCEPT !.ApplicationURL = MalformedURL]}
    /\ appData = [Name |-> <<>>, Email |-> <<>>, JobTitle |-> <<>>]
    /\ token = <<>>
    /\ result = NoErr
    /\ runs = 0
    /\ http = HttpNone
    /\ probe = ProbeNone
    /\ callers = NoCallers

Next ==
    \/ AppTick
    \/ CtxCancel
    \/ SubmitApplication
    \/ FetchAttempt
    \/ RetryWaitElapsed
    \/ RetryWaitCancelled
    \/ FetchReturn
    \/ SubmitAttempt
    \/ SubmitReturn

Spec == Init /\ [][Next]_vars

\* ------------------------------------------- getAuthTokenWithClient alone
\* the dependencies as NewAppDependencies builds them, nothing running
AppAtRest ==
    /\ now = 0
    /\ ctx = "active"
    /\ cb = NewCircuitBreaker(AppMaxFailures, AppResetTimeout)
    /\ call = CallIdle
    /\ pre = PreNone
    /\ invoked = 0
    /\ consec = 0
    /\ calls = 0
    /\ config = DefaultRetryConfig
    /\ rt = RetryIdle
    /\ succeedAt = 0
    /\ opCalls = 0
    /\ waits = 0
    /\ AppIdle

ProbeStatuses == {100, 199, 200, 201, 204, 299, 300, 301, 404, 500}

ProbeTokens == Tokens \cup {<<"t", "1">>, <<" ">>}

\* what the mock client's Get can return: an error, or a response whose body
\* cannot be read, is not JSON of the SecretResponse shape, or is JSON (a
\* body without a result field decodes to the empty result)
ProbeResponses ==
    {NoResponse}
    \cup {Response(st, k, <<>>) : st \in ProbeStatuses, k \in {"unreadable", "invalid"}}
    \cup {Response(st, "json", t) : st \in ProbeStatuses, t \in ProbeTokens}

InitToken ==
    /\ AppAtRest
    /\ callers = NoCallers
    /\ probe \in {[fn |-> "getAuthTokenWithClient", resp |-> r, done |-> FALSE,
                    token |-> <<>>, err |-> NoErr] : r \in ProbeResponses}

\* token, err := getAuthTokenWithClient(client, secretURL)
GetAuthToken ==
    /\ probe.fn = "getAuthTokenWithClient"
    /\ ~probe.done
    /\ LET tr == getAuthTokenWithClient(probe.resp)
       IN probe' = [probe EXCEPT !.done = TRUE, !.token = tr.token, !.err = tr.err]
    /\ UNCHANGED <<now, ctx, cbVars, retryVars, appVars, callers>>

NextToken == GetAuthToken

SpecToken == InitToken /\ [][NextToken]_vars

\* ------------------------------------------------------------- LoadConfig
\* URLs are strings, "" when a flag or variable is not given; the value of
\* MICV_TIMEOUT is a sequence of characters; a field of the configuration
\* file is <<>> when the file does not have it, else <<value>>.
IsDigit(c) == c \in {"0", "1", "2", "3", "4", "5", "6", "7", "8", "9"}

DigitVal(c) ==
    CASE c = "0" -> 0 [] c = "1" -> 1 [] c = "2" -> 2 [] c = "3" -> 3 [] c = "4" -> 4
      [] c = "5" -> 5 [] c = "6" -> 6 [] c = "7" -> 7 [] c = "8" -> 8 [] c = "9" -> 9

RECURSIVE AtoiDigits(_, _)
AtoiDigits(str, acc) ==
    IF str = <<>> THEN acc ELSE AtoiDigits(Tail(str), acc * 10 + DigitVal(Head(str)))

\* strconv.Atoi: an optional sign and at least one digit, digits only
Atoi(str) ==
    LET signed == str # <<>> /\ Head(str) \in {"+", "-"}
        digits == IF signed THEN Tail(str) ELSE str
    IN IF digits = <<>> \/ \E i \in 1..Len(digits) : ~IsDigit(digits[i])
       THEN [val |-> 0, ok |-> FALSE]
       ELSE [val |-> IF signed /\ Head(str) = "-" THEN 0 - AtoiDigits(digits, 0)
                     ELSE AtoiDigits(digits, 0),
             ok |-> TRUE]

\* decoder.Decode(config): the fields the file has overwrite the config
loadConfigFromFile(file, cfg) ==
    IF ~file.ok
    THEN [config |-> cfg, err |-> PlainError(<<"failed to open config file">>, NoErr)]
    ELSE [config |->
            [SecretURL |-> IF file.secret_url # <<>> THEN file.secret_url[1]
                           ELSE cfg.SecretURL,
             ApplicationURL |-> IF file.application_url # <<>> THEN file.application_url[1]
                                ELSE cfg.ApplicationURL,
             Timeout |-> IF file.timeout_seconds # <<>> THEN file.timeout_seconds[1]
                         ELSE cfg.Timeout],
          err |-> NoErr]

loadFromEnvironment(cfg, env) ==
    [SecretURL |-> IF env.MICV_SECRET_URL # "" THEN env.MICV_SECRET_URL ELSE cfg.SecretURL,
     ApplicationURL |-> IF env.MICV_APPLICATION_URL # "" THEN env.MICV_APPLICATION_URL
                        ELSE cfg.ApplicationURL,
     Timeout |-> IF /\ env.MICV_TIMEOUT # <<>>
                    /\ Atoi(env.MICV_TIMEOUT).ok
                    /\ Atoi(env.MICV_TIMEOUT).val > 0
                 THEN Atoi(env.MICV_TIMEOUT).val ELSE cfg.Timeout]

\* "Override with command line arguments if provided"
applyFlags(cfg, flags) ==
    [SecretURL |-> IF flags.secretURL # "" THEN flags.secretURL ELSE cfg.SecretURL,
     ApplicationURL |-> IF flags.appURL # "" THEN flags.appURL ELSE cfg.ApplicationURL,
     Timeout |-> IF flags.timeout > 0 THEN flags.timeout ELSE cfg.Timeout]

\* LoadConfig: the process exits (generation, version, help), or the result
\* is an error, or the configuration: defaults, then the file, then the
\* flags, then the environment
LoadConfig(flags, file, env) ==
    IF flags.mode # "run"
    THEN [exited |-> TRUE, config |-> DefaultConfig, err |-> NoErr]
    ELSE LET fromFile == IF flags.config
                         THEN loadConfigFromFile(file, DefaultConfig)
                         ELSE [config |-> DefaultConfig, err |-> NoErr]
         IN IF fromFile.err # NoErr
            THEN [exited |-> FALSE, config |-> DefaultConfig,
                  err |-> PlainError(<<"failed to load config file">>, fromFile.err)]
            ELSE [exited |-> FALSE,
                  config |-> loadFromEnvironment(applyFlags(fromFile.config, flags), env),
                  err |-> NoErr]

\* the command lines, environments and configuration files LoadConfig is run on
FlagSets ==
    [mode : {"run", "generate", "version", "help"},
     config : BOOLEAN,
     secretURL : {"", "https://flag.test/secret"},
     appURL : {"", "https://flag.test/apply"},
     timeout : {0, 60}]

Environments ==
    [MICV_SECRET_URL : {"", "https://env.test/secret"},
     MICV_APPLICATION_URL : {"", "https://env.test/apply"},
     MICV_TIMEOUT : {<<>>, <<"4", "5">>, <<"0">>, <<"4", "s">>}]

NoFile == [ok |-> FALSE, secret_url |-> <<>>, application_url |-> <<>>,
           timeout_seconds |-> <<>>]

ConfigFiles ==
    {NoFile}
    \cup [ok : {TRUE},
          secret_url : {<<>>, <<"https://file.test/secret">>},
          application_url : {<<>>, <<"https://file.test/apply">>},
          timeout_seconds : {<<>>, <<120>>}]

InitConfig ==
    /\ AppAtRest
    /\ callers = NoCallers
    /\ \E fl \in FlagSets, e \in Environments, f \in ConfigFiles :
        /\ ~fl.config => f = NoFile
        /\ probe = [fn |-> "LoadConfig", flags |-> fl, env |-> e, file |-> f,
                    done |-> FALSE,
                    out |-> [exited |-> FALSE, config |-> DefaultConfig, err |-> NoErr]]

\* configResult, err := LoadConfig()
LoadConfigCall ==
    /\ probe.fn = "LoadConfig"
    /\ ~probe.done
    /\ probe' = [probe EXCEPT !.done = TRUE,
                              !.out = LoadConfig(probe.flags, probe.file, probe.env)]
    /\ UNCHANGED <<now, ctx, cbVars, retryVars, appVars, callers>>

NextConfig == LoadConfigCall

SpecConfig == InitConfig /\ [][NextConfig]_vars

\* ------------------------------------ validateApplicationDataFunctional alone
ProbeNames == {<<>>, <<" ">>, <<"J">>, <<" ", "J", " ">>, <<"J", "o">>, <<"J", " ", "D">>}

ProbeEmails ==
    {<<>>, <<" ">>, <<"j", "@", "x">>, <<"j", ".", "x">>, <<"@", ".">>,
     <<".", "j", "@">>, <<"j", "@", "x", ".", "c">>}

ProbeJobTitles ==
    {<<>>, <<" ", " ", " ">>, <<"S", "E">>, <<" ", "S", "E", " ">>, <<"d", "e", "v">>,
     <<"Q", "A", " ", "1">>}

ProbePayloads == [Name : ProbeNames, Email : ProbeEmails, JobTitle : ProbeJobTitles]

InitValidate ==
    /\ AppAtRest
    /\ callers = NoCallers
    /\ probe \in {[fn |-> "validateApplicationDataFunctional", data |-> d,
                    done |-> FALSE, err |-> NoErr] : d \in ProbePayloads}

\* result := validateApplicationDataFunctional(appData)
ValidateCall ==
    /\ probe.fn = "validateApplicationDataFunctional"
    /\ ~probe.done
    /\ probe' = [probe EXCEPT !.done = TRUE,
                              !.err = validateApplicationDataFunctional(probe.data)]
    /\ UNCHANGED <<now, ctx, cbVars, retryVars, appVars, callers>>

NextValidate == ValidateCall

SpecValidate == InitValidate /\ [][NextValidate]_vars

\* ------------------------------------- two goroutines sharing one breaker
\* Call, onFailure and onSuccess take no lock: each read and each write of a
\* field of the breaker is a step of its own, and the steps of the two
\* goroutines interleave freely.
Procs == {1, 2}

Other(p) == CHOOSE q \in Procs : q # p

\* a goroutine outside Call; n is the failure count it read for failures++
CallerIdle ==
    [pc |-> "idle", n |-> 0, sawOpen |-> FALSE, lost |-> FALSE, err |-> NoErr, calls |-> 0]

\* if cb.state == CircuitOpen { if time.Since(cb.lastFailTime) > cb.resetTimeout
CallCheck(p) ==
    /\ callers[p].pc \in {"idle", "ret"}
    /\ callers[p].calls < MaxConcCalls
    /\ callers' = [callers EXCEPT ![p] =
            IF cb.state = CircuitOpen
            THEN IF Since(cb.lastFailTime, now) > cb.resetTimeout
                 THEN [@ EXCEPT !.pc = "toHalf", !.sawOpen = TRUE, !.lost = FALSE,
                                !.err = NoErr, !.calls = @ + 1]
                 ELSE [@ EXCEPT !.pc = "ret", !.sawOpen = FALSE, !.lost = FALSE,
                                !.err = CircuitOpenError, !.calls = @ + 1]
            ELSE [@ EXCEPT !.pc = "fn", !.sawOpen = FALSE, !.lost = FALSE,
                           !.err = NoErr, !.calls = @ + 1]]
    /\ UNCHANGED <<now, ctx, cbVars, retryVars, appVars, probe>>

\* cb.state = CircuitHalfOpen
CallSetHalfOpen(p) ==
    /\ callers[p].pc = "toHalf"
    /\ cb' = [cb EXCEPT !.state = CircuitHalfOpen]
    /\ callers' = [callers EXCEPT ![p].pc = "fn"]
    /\ UNCHANGED <<now, ctx, call, pre, invoked, consec, calls, retryVars, appVars, probe>>

\* err := fn()
CallRunFn(p) ==
    /\ callers[p].pc = "fn"
    /\ \E e \in {NoErr, TestError} :
        callers' = [callers EXCEPT ![p].err = e,
                                   ![p].pc = IF e = NoErr THEN "onSuccess" ELSE "readFailures"]
    /\ UNCHANGED <<now, ctx, cbVars, retryVars, appVars, probe>>

\* cb.failures++, the load
onFailureRead(p) ==
    /\ callers[p].pc = "readFailures"
    /\ callers' = [callers EXCEPT ![p].n = cb.failures, ![p].pc = "writeFailures"]
    /\ UNCHANGED <<now, ctx, cbVars, retryVars, appVars, probe>>

\* mutant: the increment is one atomic step
onFailureWrite_Atomic(p) ==
    /\ callers[p].pc = "writeFailures"
    /\ cb' = [cb EXCEPT !.failures = @ + 1]
    /\ callers' = [callers EXCEPT ![p].pc = "threshold", ![p].lost = FALSE]
    /\ UNCHANGED <<now, ctx, call, pre, invoked, consec, calls, retryVars, appVars, probe>>

\* cb.failures++, the store
onFailureWrite(p) ==
    /\ callers[p].pc = "writeFailures"
    /\ cb' = [cb EXCEPT !.failures = callers[p].n + 1]
    /\ callers' = [callers EXCEPT ![p].pc = "threshold",
                                  ![p].lost = cb.failures > callers[p].n]
    /\ UNCHANGED <<now, ctx, call, pre, invoked, consec, calls, retryVars, appVars, probe>>

\* cb.lastFailTime = time.Now(); if cb.failures >= cb.maxFailures { cb.state = CircuitOpen }
onFailureThreshold(p) ==
    /\ callers[p].pc = "threshold"
    /\ cb' = [cb EXCEPT !.lastFailTime = now,
                        !.state = IF cb.failures >= cb.maxFailures THEN CircuitOpen ELSE @]
    /\ callers' = [callers EXCEPT ![p].pc = "ret"]
    /\ UNCHANGED <<now, ctx, call, pre, invoked, consec, calls, retryVars, appVars, probe>>

\* cb.failures = 0; cb.state = CircuitClosed
onSuccessWrite(p) ==
    /\ callers[p].pc = "onSuccess"
    /\ cb' = [cb EXCEPT !.failures = 0, !.state = CircuitClosed]
    /\ callers' = [callers EXCEPT ![p].pc = "ret"]
    /\ UNCHANGED <<now, ctx, call, pre, invoked, consec, calls, retryVars, appVars, probe>>

InitConcurrent ==
    /\ now = 0
    /\ ctx = "active"
    /\ \E m \in 1..MaxFailuresBound, t \in 0..MaxResetTimeout :
        cb = NewCircuitBreaker(m, t)
    /\ call = CallIdle
    /\ pre = PreNone
    /\ invoked = 0
    /\ consec = 0
    /\ calls = 0
    /\ config = DefaultRetryConfig
    /\ rt = RetryIdle
    /\ succeedAt = 0
    /\ opCalls = 0
    /\ waits = 0
    /\ AppIdle
    /\ probe = ProbeNone
    /\ callers = [p \in Procs |-> CallerIdle]

NextConcurrent ==
    \/ Tick
    \/ \E p \in Procs :
        \/ CallCheck(p)
        \/ CallSetHalfOpen(p)
        \/ CallRunFn(p)
        \/ onFailureRead(p)
        \/ onFailureWrite(p)
        \/ onFailureThreshold(p)
        \/ onSuccessWrite(p)

SpecConcurrent == InitConcurrent /\ [][NextConcurrent]_vars

\* ------------------------------------------------------- Application.Run
WrapConfigError(err) == NewAppError(ErrCodeConfig, <<"Configuration error">>, err)

\* ConfigService.ValidateConfig on deps.Config()
ValidateConfig(cfg) ==
    IF cfg.SecretURL = ""
    THEN WrapConfigError(NewAppError(ErrCodeConfig, <<"secret URL is required">>, NoErr))
    ELSE IF cfg.ApplicationURL = ""
    THEN WrapConfigError(NewAppError(ErrCodeConfig, <<"application URL is required">>, NoErr))
    ELSE IF cfg.Timeout <= 0
    THEN WrapConfigError(NewAppError(ErrCodeConfig, <<"timeout must be positive">>, NoErr))
    ELSE NoErr

\* the values the fields of the shared *Config take
RunConfigs ==
    {DefaultConfig,
     [DefaultConfig EXCEPT !.SecretURL = ""],
     [DefaultConfig EXCEPT !.ApplicationURL = ""],
     [DefaultConfig EXCEPT !.Timeout = 0],
     [DefaultConfig EXCEPT !.Timeout = -1]}

\* deps.Config() hands out the *Config itself: between two runs its holder
\* assigns its fields
SetConfig ==
    /\ apc \in {"idle", "done"}
    /\ runs < MaxRuns
    /\ \E c \in RunConfigs : c # appCfg /\ appCfg' = c
    /\ UNCHANGED <<now, ctx, cbVars, retryVars, probe, callers,
                   apc, appData, token, result, runs, http>>

\* mutant: the payload is validated before the configuration
Run_ValidatesPayloadFirst ==
    \/ /\ ValidateConfig(appCfg) # NoErr
       /\ apc \in {"idle", "done"}
       /\ runs < MaxRuns
       /\ runs' = runs + 1
       /\ http' = HttpNone
       /\ token' = <<>>
       /\ \E d \in Payloads, c \in {"active"} \cup CtxKinds :
            /\ appData' = d
            /\ ctx' = c
            /\ result' = IF validateApplicationDataFunctional(d) # NoErr
                         THEN WrapValidationError(validateApplicationDataFunctional(d))
                         ELSE ValidateConfig(appCfg)
       /\ apc' = "done"
       /\ call' = CallIdle
       /\ invoked' = 0
       /\ UNCHANGED <<now, cb, pre, consec, calls, retryVars, probe, callers, appCfg>>
    \/ /\ ValidateConfig(appCfg) = NoErr
       /\ SubmitApplication

\* Application.Run: ValidateConfig, then SubmitApplication
Run ==
    \/ /\ ValidateConfig(appCfg) # NoErr
       /\ apc \in {"idle", "done"}
       /\ runs < MaxRuns
       /\ runs' = runs + 1
       /\ http' = HttpNone
       /\ token' = <<>>
       /\ \E d \in Payloads, c \in {"active"} \cup CtxKinds :
            /\ appData' = d
            /\ ctx' = c
       /\ result' = ValidateConfig(appCfg)
       /\ apc' = "done"
       /\ call' = CallIdle
       /\ invoked' = 0
       /\ UNCHANGED <<now, cb, pre, consec, calls, retryVars, probe, callers, appCfg>>
    \/ /\ ValidateConfig(appCfg) = NoErr
       /\ SubmitApplication

InitRun ==
    /\ AppAtRest
    /\ probe = ProbeNone
    /\ callers = NoCallers

NextRun ==
    \/ AppTick
    \/ CtxCancel
    \/ SetConfig
    \/ Run
    \/ FetchAttempt
    \/ RetryWaitElapsed
    \/ RetryWaitCancelled
    \/ FetchReturn
    \/ SubmitAttempt
    \/ SubmitReturn

SpecRun == InitRun /\ [][NextRun]_vars

\* ================================================================ claims
\* ---------------------------------------------------------------- retry
\* C1: with max_attempts = N >= 1 and a context that is never cancelled, an
\* operation that fails on every invocation is invoked exactly N times and
\* WithRetry then returns an error; it is never invoked more than N times, and
\* with N = 1 no backoff wait is begun.
C1_AlwaysFailingInvokedNTimes ==
    (config.MaxAttempts >= 1 /\ succeedAt = 0 /\ ctx = "active") =>
        /\ opCalls <= config.MaxAttempts
        /\ rt.pc = "ret" =>
            /\ opCalls = config.MaxAttempts
            /\ rt.err # NoErr
            /\ (config.MaxAttempts = 1 => waits = 0)

C1_Witness ==
    /\ rt.pc = "ret" /\ ctx = "active" /\ succeedAt = 0
    /\ config.MaxAttempts = MaxAttemptsBound /\ opCalls = MaxAttemptsBound
    /\ rt.err = ExhaustedError(OpOutcome(opCalls))

\* C2: with max_attempts = N, 1 <= k <= N and a context that is never
\* cancelled, an operation that fails on invocations 1..k-1 and succeeds on
\* invocation k is invoked exactly k times and WithRetry returns nil; the
\* operation is never invoked again after its success.
C2_SucceedsOnAttemptK ==
    (1 <= succeedAt /\ succeedAt <= config.MaxAttempts) =>
        /\ opCalls <= succeedAt
        /\ (rt.pc = "ret" /\ ctx = "active") =>
            /\ opCalls = succeedAt
            /\ rt.err = NoErr

C2_Witness ==
    /\ rt.pc = "ret" /\ ctx = "active" /\ rt.err = NoErr
    /\ succeedAt >= 2 /\ succeedAt <= config.MaxAttempts /\ opCalls = succeedAt

\* C7: when the context is done while WithRetry waits in a backoff whose
\* delay has not elapsed, the next step of WithRetry is to return ctx.Err():
\* the operation is not invoked again and the rest of the delay is not waited.
C7_CancelDuringBackoff ==
    [][(rt.pc = "wait" /\ ctx # "active" /\ ~TimerReady(rt, now) /\ rt' # rt) =>
            /\ rt'.pc = "ret"
            /\ rt'.err = CtxErr(ctx)
            /\ opCalls' = opCalls
            /\ now' = now]_vars

C7_Witness ==
    /\ rt.pc = "ret" /\ ctx # "active" /\ rt.err = CtxErr(ctx)
    /\ now < rt.timer /\ opCalls >= 1 /\ opCalls < config.MaxAttempts

\* ------------------------------------------------------- circuit breaker
ElapsedAtEntry == Since(pre.cb.lastFailTime, pre.now)

\* C3: a Call that begins after max_failures (and at least one) Calls in a
\* row ran their operation and failed, with no more than reset_timeout
\* elapsed since the last failure, returns the circuit-open error without
\* invoking its operation.
C3_RejectedAfterMaxFailures ==
    (/\ call.pc \in {"fn", "ret"}
     /\ pre.consec >= 1 /\ pre.consec >= cb.maxFailures
     /\ ElapsedAtEntry <= cb.resetTimeout) =>
        /\ call.pc = "ret"
        /\ call.err = CircuitOpenError
        /\ invoked = 0

C3_Witness ==
    /\ call.pc = "ret" /\ call.err = CircuitOpenError /\ invoked = 0
    /\ cb.maxFailures = MaxFailuresBound /\ pre.consec = cb.maxFailures
    /\ ElapsedAtEntry <= cb.resetTimeout

\* C4: a Call that begins while the breaker is OPEN and more than
\* reset_timeout has elapsed since the last failure puts the breaker in
\* HALF_OPEN and invokes its operation exactly once; when the operation
\* succeeds failure_count is 0 and the state CLOSED, when it fails
\* failure_count is one higher and the state is OPEN if the count is at or
\* above max_failures.
C4_HalfOpenTrial ==
    (/\ call.pc \in {"fn", "ret"}
     /\ pre.cb.state = CircuitOpen
     /\ ElapsedAtEntry > pre.cb.resetTimeout) =>
        /\ call.pc = "fn" => (cb.state = CircuitHalfOpen /\ invoked = 0)
        /\ call.pc = "ret" =>
            /\ invoked = 1
            /\ call.err = NoErr =>
                (cb.failures = 0 /\ cb.state = CircuitClosed)
            /\ call.err # NoErr =>
                /\ call.err # CircuitOpenError
                /\ cb.failures = pre.cb.failures + 1
                /\ cb.lastFailTime >= pre.now
                /\ cb.state = IF cb.failures >= cb.maxFailures
                              THEN CircuitOpen ELSE CircuitHalfOpen

C4_Witness ==
    /\ call.pc = "ret" /\ call.err = NoErr /\ invoked = 1
    /\ pre.cb.state = CircuitOpen /\ pre.cb.failures >= 1
    /\ ElapsedAtEntry > pre.cb.resetTimeout
    /\ cb.state = CircuitClosed /\ cb.failures = 0

FnReturned == call.pc = "fn" /\ call'.pc = "ret"

\* C5: the breaker's state changes only CLOSED -> OPEN (a failure brings
\* failure_count to max_failures), OPEN -> HALF_OPEN (at the entry of a Call
\* made more than reset_timeout after last_failure_time), HALF_OPEN -> CLOSED
\* (the trial succeeded) and HALF_OPEN -> OPEN (the trial failed with the
\* count at or above the threshold).
C5_StateTransitions ==
    [][cb'.state # cb.state =>
        \/ /\ cb.state = CircuitClosed /\ cb'.state = CircuitOpen
           /\ FnReturned /\ call'.err # NoErr
           /\ cb'.failures >= cb.maxFailures
           /\ (cb.maxFailures >= 1 => cb'.failures = cb.maxFailures)
        \/ /\ cb.state = CircuitOpen /\ cb'.state = CircuitHalfOpen
           /\ call.pc # "fn" /\ call'.pc = "fn"
           /\ Since(cb.lastFailTime, now) > cb.resetTimeout
        \/ /\ cb.state = CircuitHalfOpen /\ cb'.state = CircuitClosed
           /\ FnReturned /\ call'.err = NoErr
        \/ /\ cb.state = CircuitHalfOpen /\ cb'.state = CircuitOpen
           /\ FnReturned /\ call'.err # NoErr
           /\ cb'.failures >= cb.maxFailures]_vars

C5_Witness ==
    /\ call.pc = "ret" /\ call.err # NoErr /\ invoked = 1
    /\ pre.cb.state = CircuitOpen /\ cb.state = CircuitOpen
    /\ cb.failures > cb.maxFailures /\ cb.maxFailures >= 1

\* C6: failure_count becomes 0 in every step in which the operation of a
\* Call returns nil, grows by exactly one in every step in which it returns
\* an error, and is changed by no other step.
C6_FailureCountUpdates ==
    [][/\ (FnReturned /\ call'.err = NoErr) => cb'.failures = 0
       /\ (FnReturned /\ call'.err # NoErr) => cb'.failures = cb.failures + 1
       /\ ~FnReturned => cb'.failures = cb.failures]_vars

C6_Witness ==
    /\ call.pc = "ret" /\ call.err = NoErr /\ invoked = 1
    /\ pre.cb.state = CircuitClosed /\ pre.cb.failures >= 1 /\ cb.failures = 0

\* ------------------------------------------------- application service
\* C8: the breaker Call of the token fetch, whose operation is the whole
\* WithRetry, leaves failure_count untouched while the 1..max_attempts GET
\* attempts run, and at its return has set it to 0 (the retry sequence
\* succeeded) or raised it by exactly one (the retry sequence failed).
C8_BreakerCountsRetryOnce ==
    /\ apc = "fetch" =>
        /\ cb.failures = pre.cb.failures
        /\ http.gets <= config.MaxAttempts
    /\ (call.pc = "ret" /\ invoked = 1) =>
        /\ http.gets >= 1 /\ http.gets <= config.MaxAttempts
        /\ call.err = NoErr => cb.failures = 0
        /\ call.err # NoErr => cb.failures = pre.cb.failures + 1

C8_Witness ==
    /\ call.pc = "ret" /\ invoked = 1 /\ call.err # NoErr
    /\ http.gets = config.MaxAttempts /\ http.gets > 1
    /\ pre.cb.failures >= 1 /\ cb.failures = pre.cb.failures + 1

\* C9 as stated: the submission is a breaker Call, so a submission that
\* fails is counted as one failure by the breaker.
C9_SubmissionCountedByBreaker ==
    (apc = "done" /\ http.submitted /\ result # NoErr) =>
        cb.failures = http.cbAtSubmit.failures + 1

\* C9 amended: the submission runs as WithRetry around the POST only and
\* not through the breaker: from the start of the submission step to the
\* return of SubmitApplication the breaker's failure_count, last_failure_time
\* and state do not change, at most max_attempts POSTs are sent, and a
\* failed submission returns WithRetry's own error.
C9_SubmissionBypassesBreaker ==
    http.submitted =>
        /\ cb = http.cbAtSubmit
        /\ cb.state = CircuitClosed /\ cb.failures = 0
        /\ http.posts <= config.MaxAttempts
        /\ (apc = "done" /\ result # NoErr) =>
            \/ result = CtxErr(ctx)
            \/ /\ Code(result) = ErrCodeUnexpected
               /\ Code(Cause(result)) = ErrCodeNetwork

C9_Witness ==
    /\ apc = "done" /\ http.submitted /\ http.posts = config.MaxAttempts
    /\ Code(result) = ErrCodeUnexpected
    /\ cb = http.cbAtSubmit /\ cb.failures = 0

\* C10: every POST carries the result of the successful GET verbatim as its
\* Authorization header and Content-Type application/json; and when the
\* payload is valid, every GET of the run was answered 2xx with a non-empty
\* result and every POST was answered 200, SubmitApplication returns nil
\* after exactly one GET and one POST.
C10_SuccessWithVerbatimToken ==
    /\ \A r \in http.sent :
        /\ r.Method = "POST"
        /\ r.URL = appCfg.ApplicationURL
        /\ r.ContentType = <<"application/json">>
        /\ r.Authorization = http.lastResult
        /\ r.Authorization # <<>>
    /\ (/\ apc = "done"
        /\ validateApplicationDataFunctional(appData) = NoErr
        /\ appCfg.ApplicationURL # MalformedURL
        /\ http.gets >= 1 /\ http.getsOK /\ http.postsOK) =>
            /\ result = NoErr
            /\ http.gets = 1
            /\ http.posts = 1
            /\ Cardinality(http.sent) = 1

C10_Witness ==
    /\ apc = "done" /\ result = NoErr
    /\ http.gets = 1 /\ http.getsOK /\ http.posts = 1 /\ http.postsOK
    /\ \E r \in http.sent : r.Authorization = <<"B", " ", "t">>

\* the error SubmitApplication returns when every attempt of the token fetch
\* got this response
FetchExhausted(resp) ==
    ExhaustedError(WrapAuthError(getAuthTokenWithClient(resp).err))

\* C11: within one SubmitApplication the token fetch precedes the submission:
\* the submission step is entered and a POST is sent only after a GET of this
\* run returned a non-empty token (the result of the last GET), and a run
\* whose token fetch failed has returned an error without sending any POST.
C11_FetchPrecedesSubmission ==
    /\ (apc = "submit" \/ http.posts >= 1) =>
        /\ http.submitted
        /\ http.gets >= 1
        /\ token # <<>>
        /\ token = http.lastResult
    /\ (apc = "done" /\ http.gets >= 1 /\ ~http.submitted) =>
        /\ result # NoErr
        /\ http.posts = 0

C11_Witness ==
    /\ apc = "done" /\ ~http.submitted /\ http.posts = 0
    /\ http.gets = 3 /\ http.lastResult = <<>>
    /\ result = FetchExhausted(Response(200, "json", <<>>))

\* the first SubmitApplication on new dependencies, whose token fetch was
\* answered 500 on every GET
Always500OnFreshBreaker ==
    /\ runs = 1
    /\ pre.cb = NewCircuitBreaker(AppMaxFailures, AppResetTimeout)
    /\ http.gets >= 1
    /\ http.gets500

\* C12 as stated: with the default retry configuration and a fresh breaker,
\* a secret endpoint that answers 500 to every request makes SubmitApplication
\* perform exactly 3 GETs and fail with the exhausted-retries error, without
\* a POST, whatever the context does.
C12_ThreeGetsThenExhausted ==
    Always500OnFreshBreaker =>
        /\ http.gets <= 3
        /\ http.posts = 0
        /\ apc = "done" =>
            /\ http.gets = 3
            /\ result = FetchExhausted(Response(500, "invalid", <<>>))

\* C12 amended: the same, for a context that is not done when
\* SubmitApplication returns; when the context is done during a backoff wait
\* the run ends with ctx.Err() after fewer than 3 GETs, again without a POST.
C12_ThreeGetsUnlessCancelled ==
    Always500OnFreshBreaker =>
        /\ http.gets <= 3
        /\ http.posts = 0
        /\ apc = "done" =>
            /\ result # NoErr
            /\ ctx = "active" =>
                /\ http.gets = 3
                /\ Code(result) = ErrCodeUnexpected
                /\ result = FetchExhausted(Response(500, "invalid", <<>>))
            /\ http.gets < 3 => result = CtxErr(ctx)

C12_Witness ==
    /\ Always500OnFreshBreaker /\ apc = "done" /\ ctx = "active"
    /\ http.gets = 3 /\ http.posts = 0
    /\ Code(result) = ErrCodeUnexpected
    /\ Code(Cause(result)) = ErrCodeAuth

\* C13: a SubmitApplication whose payload fails validation has returned at
\* once with a VALIDATION_ERROR AppError, and no GET and no POST was made.
C13_ValidationFailsWithoutHTTP ==
    (runs >= 1 /\ validateApplicationDataFunctional(appData) # NoErr) =>
        /\ apc = "done"
        /\ IsAppError(result)
        /\ Code(result) = ErrCodeValidation
        /\ http.gets = 0
        /\ http.posts = 0

C13_Witness ==
    /\ runs >= 1 /\ apc = "done" /\ appData.Name = <<>>
    /\ Code(result) = ErrCodeValidation
    /\ http.gets = 0 /\ http.posts = 0

\* C14: the step of a SubmitApplication whose payload fails validation is
\* its only step: it returns at once, no breaker Call and no WithRetry is
\* begun, and the breaker (failure_count, last_failure_time, state) is after
\* the step what it was before.
C14_ValidationLeavesBreakerAlone ==
    [][(runs' = runs + 1 /\ validateApplicationDataFunctional(appData') # NoErr) =>
            /\ apc' = "done"
            /\ cb' = cb
            /\ calls' = calls
            /\ rt' = rt
            /\ rt'.pc = "idle"]_vars

C14_Witness ==
    /\ apc = "done" /\ runs >= 2
    /\ validateApplicationDataFunctional(appData) # NoErr
    /\ Code(result) = ErrCodeValidation
    /\ cb.failures >= 1 /\ cb.lastFailTime >= 1 /\ cb.state = CircuitOpen

\* C15: a readable response of the submission endpoint with a status outside
\* [200,300) ends the submission successfully: the attempt that received it
\* returns nil to WithRetry, no further POST follows it (a run whose POSTs
\* were all answered has sent exactly one) and SubmitApplication returns nil;
\* a run that sent a POST and returned an error had a POST that failed at
\* transport level (no response, or a body that could not be read).
C15_Non2xxSubmissionSucceeds ==
    /\ http.postNon2xx =>
        /\ apc \in {"submit", "done"}
        /\ apc = "submit" => (rt.pc = "ret" /\ rt.err = NoErr)
        /\ apc = "done" => result = NoErr
        /\ http.postsRead => http.posts = 1
    /\ (apc = "done" /\ http.posts >= 1 /\ result # NoErr) => ~http.postsRead

C15_Witness ==
    /\ apc = "done" /\ result = NoErr
    /\ http.postNon2xx /\ http.postsRead /\ ~http.postsOK
    /\ http.gets = 1 /\ http.posts = 1

\* C18 as stated: every error SubmitApplication returns is an AppError whose
\* code is VALIDATION_ERROR (exactly when the payload is invalid) or
\* UNEXPECTED_ERROR.
C18_OnlyValidationOrUnexpected ==
    (apc = "done" /\ result # NoErr) =>
        /\ IsAppError(result)
        /\ Code(result) \in {ErrCodeValidation, ErrCodeUnexpected}
        /\ Code(result) = ErrCodeValidation <=>
                validateApplicationDataFunctional(appData) # NoErr

\* C18 amended: an error SubmitApplication returns is one of four: the
\* VALIDATION_ERROR AppError of an invalid payload; the TIMEOUT_ERROR AppError
\* of the open breaker, returned before any GET; the UNEXPECTED_ERROR AppError
\* of exhausted retries, wrapping the last attempt's AUTH_ERROR or
\* NETWORK_ERROR; or ctx.Err() itself, which is not an AppError, when the
\* context was done during a backoff wait.
C18_ErrorsReturned ==
    (apc = "done" /\ result # NoErr) =>
        IF validateApplicationDataFunctional(appData) # NoErr
        THEN IsAppError(result) /\ Code(result) = ErrCodeValidation
        ELSE \/ /\ result = NewAppError(ErrCodeTimeout, <<"Circuit breaker is open">>, NoErr)
                /\ pre.cb.state = CircuitOpen
                /\ http.gets = 0
             \/ /\ IsAppError(result)
                /\ Code(result) = ErrCodeUnexpected
                /\ IF http.submitted THEN Code(Cause(result)) = ErrCodeNetwork
                   ELSE Code(Cause(result)) = ErrCodeAuth
             \/ /\ ctx # "active"
                /\ result = CtxErr(ctx)
                /\ ~IsAppError(result)
                /\ http.gets >= 1

C18_Witness ==
    /\ apc = "done" /\ ctx = "DeadlineExceeded"
    /\ result = CtxErr(ctx) /\ ~IsAppError(result)
    /\ http.submitted /\ http.posts >= 1

\* ------------------------------------------------------ pure functions
\* C16: getAuthTokenWithClient returns a token and no error exactly when the
\* GET returned a response, its status is in [200,300), its body is readable
\* JSON and the result is not empty; the token is then the result unchanged;
\* in every other case it returns an error and the empty token.
C16_TokenExactlyWhenUsable ==
    (probe.fn = "getAuthTokenWithClient" /\ probe.done) =>
        LET r == probe.resp
            usable == /\ r.ok
                      /\ r.status >= 200 /\ r.status < 300
                      /\ r.body.kind = "json"
                      /\ r.body.result # <<>>
        IN /\ usable <=> (probe.err = NoErr /\ probe.token # <<>>)
           /\ usable => probe.token = r.body.result
           /\ ~usable => (probe.err # NoErr /\ probe.token = <<>>)

C16_Witness ==
    /\ probe.fn = "getAuthTokenWithClient" /\ probe.done
    /\ probe.resp.status = 299
    /\ probe.token = <<"B", " ", "t">> /\ probe.err = NoErr

\* the value of the highest-priority source that sets a field, in the order
\* flag, environment variable, configuration file, default
ByPriority(flagSet, flagVal, envSet, envVal, fileSet, fileVal, default) ==
    IF flagSet THEN flagVal
    ELSE IF envSet THEN envVal
    ELSE IF fileSet THEN fileVal
    ELSE default

\* C17: each field of the configuration LoadConfig returns has the value of
\* the highest-priority source that sets it: the command-line flag, else the
\* environment variable, else the configuration file, else the default.
C17_FlagsOverEnvOverFileOverDefault ==
    (probe.fn = "LoadConfig" /\ probe.done /\ ~probe.out.exited /\ probe.out.err = NoErr) =>
        LET fl == probe.flags
            e == probe.env
            f == probe.file
            c == probe.out.config
            envTimeout == Atoi(e.MICV_TIMEOUT)
        IN /\ c.SecretURL =
                ByPriority(fl.secretURL # "", fl.secretURL,
                           e.MICV_SECRET_URL # "", e.MICV_SECRET_URL,
                           fl.config /\ f.secret_url # <<>>, Head(f.secret_url),
                           "https://au.mitimes.com/careers/apply/secret")
           /\ c.ApplicationURL =
                ByPriority(fl.appURL # "", fl.appURL,
                           e.MICV_APPLICATION_URL # "", e.MICV_APPLICATION_URL,
                           fl.config /\ f.application_url # <<>>, Head(f.application_url),
                           "https://au.mitimes.com/careers/apply")
           /\ c.Timeout =
                ByPriority(fl.timeout > 0, fl.timeout,
                           envTimeout.ok /\ envTimeout.val > 0, envTimeout.val,
                           fl.config /\ f.timeout_seconds # <<>>, Head(f.timeout_seconds),
                           30)

\* only whitespace, or nothing
IsBlank(str) == \A i \in 1..Len(str) : IsSpace(str[i])

\* the characters of str that are not whitespace at either end
TrimmedLen(str) ==
    IF IsBlank(str) THEN 0
    ELSE LET first == CHOOSE i \in 1..Len(str) :
                        ~IsSpace(str[i]) /\ \A j \in 1..(i - 1) : IsSpace(str[j])
             last == CHOOSE i \in 1..Len(str) :
                        ~IsSpace(str[i]) /\ \A j \in (i + 1)..Len(str) : IsSpace(str[j])
         IN last - first + 1

\* C19 as stated: the payload is accepted exactly when name, email and
\* job_title are not blank and the email contains "@" and ".".
C19_AcceptsExactlyNonBlankAndEmail ==
    (probe.fn = "validateApplicationDataFunctional" /\ probe.done) =>
        LET d == probe.data
        IN probe.err = NoErr <=>
            /\ ~IsBlank(d.Name)
            /\ ~IsBlank(d.Email)
            /\ ~IsBlank(d.JobTitle)
            /\ \E i \in 1..Len(d.Email) : d.Email[i] = "@"
            /\ \E i \in 1..Len(d.Email) : d.Email[i] = "."

\* C19 amended: the payload is accepted exactly when the name without its
\* surrounding whitespace has at least 2 characters, the job_title without
\* its surrounding whitespace has at least 3, and the email is not blank and
\* contains "@" and ".".
C19_AcceptsExactlyWithMinLengths ==
    (probe.fn = "validateApplicationDataFunctional" /\ probe.done) =>
        LET d == probe.data
        IN probe.err = NoErr <=>
            /\ TrimmedLen(d.Name) >= 2
            /\ ~IsBlank(d.Email)
            /\ TrimmedLen(d.JobTitle) >= 3
            /\ \E i \in 1..Len(d.Email) : d.Email[i] = "@"
            /\ \E i \in 1..Len(d.Email) : d.Email[i] = "."

C19_Witness ==
    /\ probe.fn = "validateApplicationDataFunctional" /\ probe.done
    /\ probe.data.Name = <<"J", "o">>
    /\ probe.data.Email = <<"@", ".">>
    /\ probe.data.JobTitle = <<" ", "S", "E", " ">>
    /\ probe.err = PlainError(<<"must be at least", "3", "characters">>, NoErr)

\* ---------------------------------------------------------- concurrency
\* C20: two Calls running concurrently on one breaker race. (1) While one
\* caller has observed OPEN with the cooldown elapsed and has not yet stored
\* HALF_OPEN, the entry check of the other caller observes the same and that
\* caller too goes on to invoke its operation as a trial. (2) When the other
\* caller has incremented failure_count between the load and the store of a
\* caller's failures++, the store leaves failure_count where it is: one of
\* the two increments is lost.
C20_ConcurrentCallsRace ==
    [][\A p \in Procs :
        /\ (/\ callers[p].pc \in {"idle", "ret"}
            /\ callers'[p].calls = callers[p].calls + 1
            /\ callers[Other(p)].pc = "toHalf"
            /\ cb.state = CircuitOpen
            /\ Since(cb.lastFailTime, now) > cb.resetTimeout) =>
                /\ callers'[p].pc = "toHalf"
                /\ callers'[p].sawOpen
        /\ (callers[p].pc = "toHalf" /\ callers'[p].pc # "toHalf") =>
                callers'[p].pc = "fn"
        /\ (/\ callers[p].pc = "writeFailures"
            /\ callers'[p].pc # "writeFailures"
            /\ cb.failures = callers[p].n + 1) =>
                /\ cb'.failures = cb.failures
                /\ callers'[p].lost]_vars

\* both callers are inside Call at once, both having observed OPEN after the
\* cooldown and invoked their operation as a trial; both trials failed and
\* the later store of failures++ lost the increment of the earlier one
C20_Witness ==
    /\ callers # NoCallers
    /\ \A p \in Procs :
        callers[p].pc = "threshold" /\ callers[p].sawOpen /\ callers[p].err # NoErr
    /\ \E p \in Procs : callers[p].lost /\ cb.failures = callers[p].n + 1

\* ---------------------------------------------------------- retry, again
\* the wait the claim describes before attempt j + 1: initial_delay for
\* j = 1, else the previous wait times the multiplier, capped at max_delay
RECURSIVE NthWait(_, _)
NthWait(j, cfg) ==
    IF j <= 1 THEN cfg.InitialDelay
    ELSE LET d == (NthWait(j - 1, cfg) * cfg.Multiplier) \div 10
         IN IF d > cfg.MaxDelay THEN cfg.MaxDelay ELSE d

\* C21 as stated: the wait WithRetry begins after failed attempt j is
\* initial_delay for j = 1 and the previous wait multiplied and capped for
\* j > 1, and no wait is longer than max_delay.
C21_BackoffNeverAboveMaxDelay ==
    rt.pc = "wait" =>
        /\ rt.attempt >= 1 /\ rt.attempt < config.MaxAttempts
        /\ rt.delay = NthWait(rt.attempt, config)
        /\ rt.delay <= config.MaxDelay

\* C21: the wait WithRetry begins after failed attempt j is initial_delay
\* for j = 1 and the previous wait multiplied and capped at max_delay for
\* j > 1; every wait after the first is at most max_delay, and the first is
\* at most max_delay exactly when initial_delay is.
C21_BackoffCappedAfterFirstWait ==
    rt.pc = "wait" =>
        /\ rt.attempt >= 1 /\ rt.attempt < config.MaxAttempts
        /\ rt.delay = NthWait(rt.attempt, config)
        /\ rt.attempt > 1 => rt.delay <= config.MaxDelay
        /\ rt.attempt = 1 =>
            (rt.delay <= config.MaxDelay <=> config.InitialDelay <= config.MaxDelay)

\* the second wait: the first one doubled is above max_delay and was capped
C21_Witness ==
    /\ rt.pc = "wait" /\ rt.attempt = 2 /\ opCalls = 2 /\ waits = 2
    /\ config.InitialDelay >= 1 /\ config.InitialDelay <= config.MaxDelay
    /\ (config.InitialDelay * config.Multiplier) \div 10 > config.MaxDelay
    /\ rt.delay = config.MaxDelay

\* -------------------------------------------------- errors handed upwards
\* C22: when the operation of the breaker Call (fetchTokenWithRetry) has
\* been invoked and returned an error, the Call records a failure and
\* returns exactly that error, whether the circuit stays CLOSED or opens;
\* and when a WithRetry ends on its last attempt with a failure, it returns
\* the exhausted error whose cause is the error the operation returned on
\* that attempt.
C22_ErrorsHandedUpwards ==
    [][/\ (apc = "fetch" /\ rt.pc = "ret" /\ rt.err # NoErr /\ apc' # "fetch") =>
            /\ call'.pc = "ret"
            /\ call'.err = rt.err
            /\ cb'.failures = cb.failures + 1
            /\ cb'.state = IF cb'.failures >= cb.maxFailures
                           THEN CircuitOpen ELSE CircuitClosed
       /\ (rt.pc = "call" /\ rt'.pc = "ret" /\ rt.attempt = config.MaxAttempts
           /\ http'.opErr # NoErr) =>
            /\ Code(rt'.err) = ErrCodeUnexpected
            /\ Cause(rt'.err) = http'.opErr]_vars

\* the third failed Call in a row opened the circuit and returned the
\* exhausted error of its fetch, whose cause is the error of the last GET
\* (an empty result) and not that of the first (a 500)
C22_Witness ==
    /\ apc = "done" /\ call.pc = "ret" /\ call.err = result
    /\ consec = 3 /\ cb.failures = 3 /\ cb.state = CircuitOpen
    /\ pre.cb.state = CircuitClosed
    /\ http.gets = 3 /\ ~http.gets500
    /\ IsAppError(result)
    /\ Code(result) = ErrCodeUnexpected
    /\ Cause(result) = http.opErr
    /\ http.opErr = WrapAuthError(PlainError(<<"empty result in secret response">>, NoErr))

\* ------------------------------------------------ circuit breaker, again
\* C23: with a single caller the breaker is HALF_OPEN only while the
\* operation of a Call is running; at the return of every Call (successful,
\* failed or rejected) the state is CLOSED or OPEN, and a trial begun from
\* OPEN ends in CLOSED when it succeeded and in OPEN when it failed.
C23_NeverLeftHalfOpen ==
    /\ cb.state = CircuitHalfOpen => call.pc = "fn"
    /\ call.pc = "ret" =>
        /\ cb.state \in {CircuitClosed, CircuitOpen}
        /\ (pre.cb.state = CircuitOpen /\ invoked = 1) =>
            cb.state = IF call.err = NoErr THEN CircuitClosed ELSE CircuitOpen

\* a trial admitted from OPEN failed and its Call returned with the
\* circuit OPEN again
C23_Witness ==
    /\ call.pc = "ret" /\ invoked = 1 /\ call.err = TestError
    /\ pre.cb.state = CircuitOpen /\ ElapsedAtEntry > pre.cb.resetTimeout
    /\ cb.state = CircuitOpen /\ cb.failures = pre.cb.failures + 1

\* C24: for a breaker created with max_failures >= 1 and used by a single
\* caller, CLOSED implies failure_count < max_failures, OPEN implies
\* failure_count >= max_failures, and failure_count is never negative.
C24_StateMatchesFailureCount ==
    cb.maxFailures >= 1 =>
        /\ cb.state = CircuitClosed => cb.failures < cb.maxFailures
        /\ cb.state = CircuitOpen => cb.failures >= cb.maxFailures
        /\ cb.failures >= 0

\* a failure below the threshold left the circuit CLOSED with a count of
\* max_failures - 1, after an earlier success had reset the count
C24_Witness ==
    /\ call.pc = "ret" /\ invoked = 1 /\ call.err = TestError
    /\ cb.state = CircuitClosed /\ cb.failures >= 1
    /\ cb.failures = cb.maxFailures - 1
    /\ pre.cb.failures = 0 /\ calls >= 3

\* C25: a trial that fails in HALF_OPEN finds failure_count already at or
\* above max_failures, whatever max_failures is, and re-opens the circuit in
\* the same step with last_failure_time set to the time of that failure; the
\* Call that follows is rejected without running its operation when no more
\* than reset_timeout has elapsed since last_failure_time, and admitted as a
\* new trial otherwise.
C25_FailedTrialRestartsCooldown ==
    [][/\ (FnReturned /\ cb.state = CircuitHalfOpen /\ call'.err # NoErr) =>
            /\ cb.failures >= cb.maxFailures
            /\ cb'.state = CircuitOpen
            /\ cb'.failures = cb.failures + 1
            /\ cb'.lastFailTime = now
       /\ (/\ call.pc = "ret" /\ invoked = 1 /\ call.err # NoErr
           /\ pre.cb.state = CircuitOpen
           /\ calls' = calls + 1) =>
            IF Since(cb.lastFailTime, now) > cb.resetTimeout
            THEN call'.pc = "fn" /\ cb'.state = CircuitHalfOpen
            ELSE /\ call'.pc = "ret" /\ call'.err = CircuitOpenError
                 /\ invoked' = 0 /\ cb' = cb]_vars

\* the Call after a failed trial was made exactly reset_timeout > 0 after
\* the trial failed, later than reset_timeout after the failure before it,
\* and was rejected
C25_Witness ==
    /\ call.pc = "ret" /\ call.err = CircuitOpenError /\ invoked = 0
    /\ pre.cb.state = CircuitOpen /\ pre.cb.maxFailures >= 1
    /\ pre.cb.failures > pre.cb.maxFailures
    /\ pre.cb.resetTimeout >= 1
    /\ ElapsedAtEntry = pre.cb.resetTimeout
    /\ pre.cb.lastFailTime > pre.cb.resetTimeout
    /\ cb.state = CircuitOpen

\* C26: a Call rejected because the circuit is OPEN leaves the breaker as it
\* was: failure_count, last_failure_time and state are the same before and
\* after it, its operation is not invoked, and a further Call made at the same
\* distance from last_failure_time is rejected again.
C26_RejectedCallChangesNothing ==
    [][(calls' = calls + 1 /\ call'.pc = "ret") =>
            /\ call'.err = CircuitOpenError
            /\ invoked' = 0
            /\ cb.state = CircuitOpen
            /\ cb'.failures = cb.failures
            /\ cb'.lastFailTime = cb.lastFailTime
            /\ cb'.state = cb.state
            /\ cb' = cb]_vars

\* two Calls in a row were rejected within the cooldown of one failure
C26_Witness ==
    /\ call.pc = "ret" /\ call.err = CircuitOpenError /\ invoked = 0
    /\ cb = pre.cb /\ cb.state = CircuitOpen
    /\ pre.consec = consec /\ calls >= cb.maxFailures + 2
    /\ cb.failures = cb.maxFailures /\ cb.maxFailures >= 1
    /\ now > cb.lastFailTime

\* ------------------------------------------- retry and a done context
\* C27: WithRetry looks at the context only in the backoff wait. Entered
\* with max_attempts >= 1 it goes on to invoke the operation even when the
\* context is already done; an invocation that returns nil makes WithRetry
\* return nil whatever the context; and WithRetry returns the context's
\* error only out of a backoff wait with the context done.
C27_CancellationSeenOnlyInBackoff ==
    [][/\ (rt.pc = "idle" /\ rt'.pc # "idle" /\ config.MaxAttempts >= 1) =>
            /\ rt'.pc = "call"
            /\ opCalls' = opCalls
       /\ (rt.pc = "call" /\ rt' # rt) =>
            /\ opCalls' = opCalls + 1
            /\ OpOutcome(opCalls') = NoErr => (rt'.pc = "ret" /\ rt'.err = NoErr)
       /\ (rt.pc # "ret" /\ rt'.pc = "ret" /\ rt'.err \in {CtxErr(k) : k \in CtxKinds}) =>
            /\ rt.pc = "wait"
            /\ ctx # "active"
            /\ rt'.err = CtxErr(ctx)]_vars

\* the first invocation succeeded with the context done and no backoff
\* begun: WithRetry returned nil
C27_Witness ==
    /\ rt.pc = "ret" /\ rt.err = NoErr /\ ctx # "active"
    /\ succeedAt = 1 /\ opCalls = 1 /\ waits = 0 /\ now = 0
    /\ config.MaxAttempts >= 1

\* ------------------------------------------------ requests of one run
\* C28: one SubmitApplication run sends at most 3 GETs and at most 3 POSTs;
\* once it has sent a POST it sends no further GET and the token stays what
\* the fetch returned; every POST of the run carries that one token.
C28_RequestsOfOneRun ==
    [][/\ http'.gets <= 3
       /\ http'.posts <= 3
       /\ (http.posts >= 1 /\ runs' = runs) =>
            /\ http'.gets = http.gets
            /\ token' = token
       /\ \A r \in http'.sent : r.Authorization = token'
       /\ Cardinality(http'.sent) <= 1]_vars

\* a run that needed three GETs to obtain the token and then sent three
\* POSTs with it, all of which failed
C28_Witness ==
    /\ apc = "done" /\ http.gets = 3 /\ http.posts = 3
    /\ http.lastResult # <<>>
    /\ Cardinality(http.sent) = 1
    /\ \A r \in http.sent : r.Authorization = http.lastResult
    /\ IsAppError(result) /\ Code(result) = ErrCodeUnexpected /\ Code(Cause(result)) = ErrCodeNetwork

\* ------------------------------------------- a fetch cut short by the context
\* C29: when the WithRetry of the token fetch has returned the context's
\* error out of a backoff wait, the breaker Call records a failure like any
\* other: failure_count grows by one, last_failure_time becomes the current
\* time, the state becomes OPEN when the count has reached max_failures and
\* stays as it was otherwise, and the context's error is what is returned.
C29_CancelledFetchCountsAsFailure ==
    [][(/\ apc = "fetch" /\ rt.pc = "ret"
        /\ ctx # "active" /\ rt.err = CtxErr(ctx)
        /\ apc' # "fetch") =>
            /\ http.gets >= 1 /\ http.gets < config.MaxAttempts
            /\ cb'.failures = cb.failures + 1
            /\ cb'.lastFailTime = now
            /\ cb'.state = IF cb'.failures >= cb.maxFailures
                           THEN CircuitOpen ELSE cb.state
            /\ call'.err = CtxErr(ctx)
            /\ result' = CtxErr(ctx)
            /\ apc' = "done"]_vars

\* the third failed fetch in a row ended in a backoff wait when the context
\* was done, some time after the Call began, and opened the circuit
C29_Witness ==
    /\ apc = "done" /\ ctx # "active" /\ result = CtxErr(ctx)
    /\ call.pc = "ret" /\ call.err = result /\ invoked = 1
    /\ http.gets >= 1 /\ http.gets < config.MaxAttempts /\ http.posts = 0
    /\ pre.cb.state = CircuitClosed /\ pre.cb.failures = cb.maxFailures - 1
    /\ cb.state = CircuitOpen /\ cb.failures = cb.maxFailures
    /\ cb.lastFailTime > pre.now

\* ------------------------------------------------------- Application.Run
\* C30: a Run made while the secret URL or the application URL is empty or
\* the timeout is not positive returns at once with a CONFIG_ERROR, also when
\* the payload is invalid; it sends no GET and no POST, begins no breaker
\* Call and no retry, and leaves the breaker as it was.
C30_ConfigCheckedFirst ==
    [][(/\ runs' = runs + 1
        /\ \/ appCfg.SecretURL = ""
           \/ appCfg.ApplicationURL = ""
           \/ appCfg.Timeout <= 0) =>
            /\ apc' = "done"
            /\ IsAppError(result') /\ Code(result') = ErrCodeConfig
            /\ http'.gets = 0 /\ http'.posts = 0 /\ ~http'.submitted
            /\ cb' = cb
            /\ calls' = calls
            /\ rt' = rt]_vars

\* a Run with a non-positive timeout and an invalid payload returned a
\* CONFIG_ERROR and left alone a breaker that earlier runs had opened
C30_Witness ==
    /\ apc = "done" /\ IsAppError(result) /\ Code(result) = ErrCodeConfig
    /\ appCfg.SecretURL # "" /\ appCfg.ApplicationURL # "" /\ appCfg.Timeout <= 0
    /\ result = ValidateConfig(appCfg)
    /\ validateApplicationDataFunctional(appData) # NoErr
    /\ http = HttpNone
    /\ cb.state = CircuitOpen /\ cb.failures = cb.maxFailures
    /\ runs = MaxRuns

====
